---- MODULE Spec2Model ----
(***************************************************************************)
(* Model of the window time tracker (src/window_tracker.py) and of the     *)
(* log reader of the chart script (src/visualize_projects.py).             *)
(*                                                                         *)
(* Text is modelled structurally:                                          *)
(*  - a window title, a project name and an application name are           *)
(*    sequences of one-character strings;                                  *)
(*  - the text of a CSV cell or of a header value is a record              *)
(*    [k |-> kind, v |-> parts]: k = "ts" is a '%Y-%m-%d %H:%M:%S' text   *)
(*    whose parts are its three colon-separated pieces <<date and hour,    *)
(*    minute, second>>, k = "int" is the decimal text of the integer       *)
(*    v[1], k = "title" is the text of a window title (v is the title),    *)
(*    k = "name" is a column name, k = "txt" is any other text,            *)
(*    k = "none" marks a missing dictionary key;                           *)
(*  - a line of a log file is [hash |-> starts with '#', label |-> text    *)
(*    before the first colon of a comment line, cells |-> the texts].      *)
(* The clock counts ticks of 1/TicksPerSec second.                         *)
(***************************************************************************)
EXTENDS Integers, Sequences, FiniteSets, TLC

\* ------------------------------------------------------------------ bounds
MaxCycles   == 3   \* poll cycles of a process that is not started again
FewCycles   == 2   \* poll cycles in all, when the process is started again
                   \* or starts on logs written by hand
MaxWindows  == 2   \* titles returned by one window enumeration
MaxDrift    == 1   \* ticks by which a poll cycle is longer than CHECK_INTERVAL
TicksPerSec == 2   \* clock resolution of the model
MaxTitleLen == 3   \* characters of a title given to the classifier alone
MaxNameLen  == 3   \* characters of the project text of a composed title

\* --------------------------------------------------------------- constants
CHECK_INTERVAL == 20
TITLE_PREFIX_LEN == 50
APP_SUFFIX_LEN == 30
MIN_NAME_LEN == 2

CheckTicks == CHECK_INTERVAL * TicksPerSec

\* ------------------------------------------------------------ characters
UpperCase ==
  <<"A","B","C","D","E","F","G","H","I","J","K","L","M",
    "N","O","P","Q","R","S","T","U","V","W","X","Y","Z">>
LowerCase ==
  <<"a","b","c","d","e","f","g","h","i","j","k","l","m",
    "n","o","p","q","r","s","t","u","v","w","x","y","z">>

\* str.lower() on one character
LowerChar(c) ==
  IF \E i \in 1..Len(UpperCase) : UpperCase[i] = c
  THEN LowerCase[CHOOSE i \in 1..Len(UpperCase) : UpperCase[i] = c]
  ELSE c

\* str.lower()
LowerStr(s) == [i \in 1..Len(s) |-> LowerChar(s[i])]

\* \s of the regular expressions and of str.strip(); "TAB" stands for a tab,
\* "CR" for a carriage return, "LF" for a line feed
WhiteSpace == {" ", "TAB", "CR", "LF"}
IsSpace(c) == c \in WhiteSpace

\* [-–—] : hyphen, en dash ("EN"), em dash ("EM")
IsDash(c) == c \in {"-", "EN", "EM"}

\* the characters re.sub replaces: < > : " / \ | ? * ("DQ" is the double quote,
\* "BS" the backslash)
IllegalChars == {"<", ">", ":", "DQ", "/", "BS", "|", "?", "*"}

Min(a, b) == IF a < b THEN a ELSE b

\* s[:n]
Prefix(s, n) == SubSeq(s, 1, Min(n, Len(s)))

\* s[i:] for a 1-based i
SuffixFrom(s, i) == SubSeq(s, i, Len(s))

\* lstrip that strips nothing
LStripNothing(s, chars) == s

\* str.lstrip(chars)
RECURSIVE LStrip(_, _)
LStrip(s, chars) ==
  IF s # <<>> /\ Head(s) \in chars THEN LStrip(Tail(s), chars) ELSE s

\* the right half of str.strip()
RECURSIVE RStripSpace(_)
RStripSpace(s) ==
  IF s # <<>> /\ IsSpace(s[Len(s)])
  THEN RStripSpace(SubSeq(s, 1, Len(s) - 1))
  ELSE s

\* str.strip()
Strip(s) == RStripSpace(LStrip(s, WhiteSpace))

\* needle in haystack
IsSubstring(needle, s) ==
  \E i \in 1..(Len(s) - Len(needle) + 1) :
    SubSeq(s, i, i + Len(needle) - 1) = needle

\* ---------------------------------------------------------- the classifier
UnnamedProject ==
  <<"U","n","n","a","m","e","d","_","P","r","o","j","e","c","t">>
UnknownApp == <<"U","n","k","n","o","w","n","_","A","p","p">>

\* \s*[-–—] matches at position i of the title
SeparatorAt(title, i) ==
  \E j \in i..Len(title) :
    /\ IsDash(title[j])
    /\ \A k \in i..(j - 1) : IsSpace(title[k])

\* group 1 of the expression may be the first i characters: a separator
\* follows them, and "." matches each of them (any character but a line feed)
GroupAt(title, i) ==
  /\ SeparatorAt(title, i + 1)
  /\ \A k \in 1..i : title[k] # "LF"

\* re.search(r'^(.+?)\s*[-–—]\s*', title): the length of group 1, the shortest
\* non-empty prefix that a separator follows, or 0 when there is no match
MatchLen(title) ==
  IF \E i \in 1..Len(title) : GroupAt(title, i)
  THEN CHOOSE i \in 1..Len(title) :
         /\ GroupAt(title, i)
         /\ \A h \in 1..(i - 1) : ~GroupAt(title, h)
  ELSE 0

\* Sanitize that replaces nothing
SanitizeNothing(name) == name

\* re.sub(r'[<>:"/\\|?*]', '_', name)
Sanitize(name) ==
  [i \in 1..Len(name) |-> IF name[i] \in IllegalChars THEN "_" ELSE name[i]]

extract_project_name(window_title) ==
  LET n    == MatchLen(window_title)
      raw  == IF n > 0 THEN Strip(SubSeq(window_title, 1, n))
              ELSE Prefix(window_title, TITLE_PREFIX_LEN)
      name == Sanitize(LStrip(raw, {"*", " "}))
  IN  IF Len(name) < MIN_NAME_LEN THEN UnnamedProject ELSE name

app_keywords ==
  <<<< <<"b","l","e","n","d","e","r">>, <<"B","l","e","n","d","e","r">> >>,
    << <<"a","r","c","h","i","c","a","d">>, <<"A","r","c","h","i","C","A","D">> >>,
    << <<"r","e","v","i","t">>, <<"R","e","v","i","t">> >>,
    << <<"a","u","t","o","c","a","d">>, <<"A","u","t","o","C","A","D">> >>,
    << <<"s","k","e","t","c","h","u","p">>, <<"S","k","e","t","c","h","U","p">> >>,
    << <<"r","h","i","n","o">>, <<"R","h","i","n","o">> >>,
    << <<"3","d","s"," ","m","a","x">>, <<"3","d","s","M","a","x">> >>,
    << <<"l","u","m","i","o","n">>, <<"L","u","m","i","o","n">> >>,
    << <<"e","n","s","c","a","p","e">>, <<"E","n","s","c","a","p","e">> >>,
    << <<"p","h","o","t","o","s","h","o","p">>, <<"P","h","o","t","o","s","h","o","p">> >>,
    << <<"i","l","l","u","s","t","r","a","t","o","r">>,
       <<"I","l","l","u","s","t","r","a","t","o","r">> >>,
    << <<"c","h","r","o","m","e">>, <<"C","h","r","o","m","e">> >>,
    << <<"f","i","r","e","f","o","x">>, <<"F","i","r","e","f","o","x">> >>,
    << <<"e","x","c","e","l">>, <<"E","x","c","e","l">> >>,
    << <<"w","o","r","d">>, <<"W","o","r","d">> >>,
    << <<"p","o","w","e","r","p","o","i","n","t">>,
       <<"P","o","w","e","r","P","o","i","n","t">> >> >>

\* the ' - ' of window_title.split(' - ')
SplitSep == <<" ", "-", " ">>

\* window_title.split(' - ')[-1] as the 1-based position where the last part
\* starts, scanning left to right without overlap; `from` is where the
\* current part starts, i the scan position
RECURSIVE LastPartStart(_, _, _)
LastPartStart(s, from, i) ==
  IF i + Len(SplitSep) - 1 > Len(s) THEN from
  ELSE IF SubSeq(s, i, i + Len(SplitSep) - 1) = SplitSep
       THEN LastPartStart(s, i + Len(SplitSep), i + Len(SplitSep))
       ELSE LastPartStart(s, from, i + 1)

get_app_name_from_title(window_title) ==
  LET lower == LowerStr(window_title)
      hits  == {i \in 1..Len(app_keywords) : IsSubstring(app_keywords[i][1], lower)}
      start == LastPartStart(window_title, 1, 1)
  IN  IF hits # {}
      THEN app_keywords[CHOOSE i \in hits : \A h \in hits : i <= h][2]
      ELSE IF start > 1
           THEN Prefix(SuffixFrom(window_title, start), APP_SUFFIX_LEN)
           ELSE UnknownApp

\* the allow-list of run()
TrackedApps ==
  {<<"b","l","e","n","d","e","r">>,
   <<"a","r","c","h","i","c","a","d">>,
   <<"r","e","v","i","t">>,
   <<"a","u","t","o","c","a","d">>,
   <<"s","k","e","t","c","h","u","p">>,
   <<"r","h","i","n","o">>,
   <<"3","d","s","m","a","x">>,
   <<"l","u","m","i","o","n">>,
   <<"e","n","s","c","a","p","e">>,
   <<"p","h","o","t","o","s","h","o","p">>,
   <<"i","l","l","u","s","t","r","a","t","o","r">>,
   <<"v","e","c","t","o","r","w","o","r","k","s">>}

\* the test of run() that a title belongs to a tracked application
IsTracked(window_title) ==
  LowerStr(get_app_name_from_title(window_title)) \in TrackedApps

\* ------------------------------------------------- the titles of the model
TitleA  == <<"A","1"," ","-"," ","B","l","e","n","d","e","r">>
TitleA2 == <<"*"," ","A","1"," ","-"," ","B","l","e","n","d","e","r"," ","4">>
TitleB  == <<"B","2"," ","-"," ","R","e","v","i","t">>
TitleC  == <<"A","1"," ","-"," ","C","h","r","o","m","e">>
\* a title that holds a carriage return
TitleR  == <<"B","2"," ","-"," ","R","e","v","i","t","CR","9">>

Titles == {TitleA, TitleA2, TitleB, TitleC, TitleR}

\* the classification of the model's titles, computed once
ProjectOf == [t \in Titles |-> extract_project_name(t)]
TrackedTitle == [t \in Titles |-> IsTracked(t)]

Projects == {ProjectOf[t] : t \in Titles}
ProjA == ProjectOf[TitleA]
ProjB == ProjectOf[TitleB]

\* ------------------------------------------------------------- clock text
\* datetime.strftime('%Y-%m-%d %H:%M:%S') of the clock reading t (ticks): the
\* sub-second part is dropped
Fmt(t) ==
  LET s == t \div TicksPerSec
  IN  [k |-> "ts", v |-> <<s \div 3600, (s \div 60) % 60, s % 60>>]

\* the seconds a well-formed timestamp text denotes (datetime.strptime)
TsSeconds(c) == c.v[1] * 3600 + c.v[2] * 60 + c.v[3]

IsTsText(c) == c.k = "ts"

\* int((end_time - start).total_seconds()): truncation toward zero
DurationSec(start, end) ==
  IF end >= start THEN (end - start) \div TicksPerSec
  ELSE -((start - end) \div TicksPerSec)

\* str(n) as written by csv.writer and by the f-string of the header
IntText(n) == [k |-> "int", v |-> <<n>>]

\* int(text) succeeds on a decimal text only
IsIntText(c) == c.k = "int"
IntOf(c) == c.v[1]

\* the text of a window title in a CSV cell
TitleText(title) == [k |-> "title", v |-> title]
EmptyText == TitleText(<<>>)

\* a key that a dictionary does not hold
Missing == [k |-> "none", v |-> <<>>]

\* ------------------------------------------------------------ log files
NoFile == [exists |-> FALSE, lines |-> <<>>]
FileOf(lines) == [exists |-> TRUE, lines |-> lines]

CommentLine(label, body) == [hash |-> TRUE, label |-> label, cells |-> <<body>>]
DataLine(cells) == [hash |-> FALSE, label |-> "", cells |-> cells]

ColumnName(i) == [k |-> "name", v |-> <<i>>]
ColumnNames == <<ColumnName(1), ColumnName(2), ColumnName(3), ColumnName(4)>>

\* a total that counts the latest session only
LastDuration(sess) == IF sess = <<>> THEN 0 ELSE sess[Len(sess)].duration

\* sum(s['duration'] for s in self.sessions[proj])
RECURSIVE SumDurations(_)
SumDurations(sess) ==
  IF sess = <<>> THEN 0 ELSE Head(sess).duration + SumDurations(Tail(sess))

\* writer.writerow([s['start'], s['end'], s['duration'], s['window_title']])
RowCells(s) == <<s.start, s.end, IntText(s.duration), s.window_title>>

\* the four '#' lines and the column row that save_session_log writes first
HeaderLines(created, last_changed, total) ==
  << CommentLine("Created", created),
     CommentLine("Last changed", last_changed),
     CommentLine("Total time across all sessions (sec)", IntText(total)),
     CommentLine("Columns", [k |-> "txt", v |-> <<0>>]),
     DataLine(ColumnNames) >>

HeaderLen == Len(HeaderLines(Missing, Missing, 0))

\* everything save_session_log writes for a project
RenderLog(meta, sess) ==
  HeaderLines(meta.created, meta.last_changed, SumDurations(sess))
    \o [i \in 1..Len(sess) |-> DataLine(RowCells(sess[i]))]

\* self.log_meta.get(proj,{}).get('created', self.sessions[proj][0]['start'])
CreatedFor(meta, sess) ==
  IF meta.created # Missing THEN meta.created ELSE sess[1].start

\* the log_meta entry save_session_log stores and writes
SaveMeta(meta, sess, now) ==
  [created |-> CreatedFor(meta, sess), last_changed |-> Fmt(now)]

\* ---------------------------------------------------------------- loading
NoMeta == [created |-> Missing, last_changed |-> Missing]

\* line.strip().split(':',1)[1].strip(): all the text after the first colon
HeaderValue(line) == line.cells[1]

\* the first loop over the file: the Created / Last changed lines before the
\* first line that is neither a comment nor blank
RECURSIVE ScanMeta(_, _, _)
ScanMeta(lines, i, meta) ==
  IF i > Len(lines) THEN meta
  ELSE LET ln == lines[i]
       IN  IF ln.hash /\ ln.label = "Created"
           THEN ScanMeta(lines, i + 1, [meta EXCEPT !.created = HeaderValue(ln)])
           ELSE IF ln.hash /\ ln.label = "Last changed"
           THEN ScanMeta(lines, i + 1, [meta EXCEPT !.last_changed = HeaderValue(ln)])
           ELSE IF ~ln.hash THEN meta
           ELSE ScanMeta(lines, i + 1, meta)

\* self.log_meta[proj] = meta if meta else {now, now}
LoadMeta(lines, now) ==
  LET meta == ScanMeta(lines, 1, NoMeta)
  IN  IF meta # NoMeta THEN meta
      ELSE [created |-> Fmt(now), last_changed |-> Fmt(now)]

\* csv.reader(filter(lambda row: row[0] not in '#', f)) after next(reader, None)
CsvRows(lines) ==
  LET data == SelectSeq(lines, LAMBDA ln : ~ln.hash)
  IN  IF data = <<>> THEN <<>> ELSE Tail(data)

\* the rows the second loop appends: those of three or more cells
AcceptedRows(lines) == SelectSeq(CsvRows(lines), LAMBDA ln : Len(ln.cells) >= 3)

\* int(row[2]) raises ValueError
RowRaises(ln) == ~IsIntText(ln.cells[3])

\* open(fname, 'r') without newline='': the text the reader is given has a
\* line feed for every carriage return and for every pair "CR", "LF"
RECURSIVE UniversalNewlines(_)
UniversalNewlines(s) ==
  IF s = <<>> THEN <<>>
  ELSE IF Head(s) = "CR"
       THEN IF Len(s) > 1 /\ s[2] = "LF"
            THEN <<"LF">> \o UniversalNewlines(SubSeq(s, 3, Len(s)))
            ELSE <<"LF">> \o UniversalNewlines(Tail(s))
       ELSE <<Head(s)>> \o UniversalNewlines(Tail(s))

\* a cell as csv.reader returns it: the cell that was written, in the text
\* that open() hands over (a quoted cell keeps its line breaks; the other
\* cells of the model hold none; the titles of the model hold no "#" after a
\* line break, so that the filter drops no part of a row)
ReadCell(c) == IF c.k = "title" THEN TitleText(UniversalNewlines(c.v)) ELSE c

RowSession(ln) ==
  [start        |-> ReadCell(ln.cells[1]),
   end          |-> ReadCell(ln.cells[2]),
   duration     |-> IntOf(ln.cells[3]),
   window_title |-> IF Len(ln.cells) > 3 THEN ReadCell(ln.cells[4]) ELSE EmptyText]

\* the second loop of load_existing_sessions raises on this file
LoadRaises(lines) ==
  \E i \in 1..Len(AcceptedRows(lines)) : RowRaises(AcceptedRows(lines)[i])

\* self.sessions[proj] after the second loop, when it does not raise
LoadRows(lines) ==
  LET rows == AcceptedRows(lines)
  IN  [i \in 1..Len(rows) |-> RowSession(rows[i])]

\* load_existing_sessions over the log folder d at clock reading now
load_existing_sessions(d, now) ==
  [raises   |-> \E p \in DOMAIN d : d[p].exists /\ LoadRaises(d[p].lines),
   sessions |-> [p \in DOMAIN d |->
                   IF d[p].exists /\ ~LoadRaises(d[p].lines)
                   THEN LoadRows(d[p].lines) ELSE <<>>],
   log_meta |-> [p \in DOMAIN d |->
                   IF d[p].exists THEN LoadMeta(d[p].lines, now) ELSE NoMeta]]

\* --------------------------------------------------------- active sessions
\* session_active is a dict in insertion order: a sequence of entries
ActiveKeys(active) == {active[i].proj : i \in DOMAIN active}
ActiveOf(active, p) == active[CHOOSE i \in DOMAIN active : active[i].proj = p]
NoEntry == [proj |-> <<>>, start |-> 0, window_title |-> <<>>]

\* on_window_open that opens nothing
on_window_open_nothing(active, window_title, now) == active

on_window_open(active, window_title, now) ==
  LET proj == ProjectOf[window_title]
  IN  IF proj \notin ActiveKeys(active)
      THEN Append(active, [proj |-> proj, start |-> now, window_title |-> window_title])
      ELSE active

\* OpenLoop with an assignment that is not guarded by `proj not in`: a title of
\* an open project starts its session again
RECURSIVE OpenLoopReset(_, _, _, _)
OpenLoopReset(active, tracked, wins, now) ==
  IF wins = <<>> THEN [active |-> active, tracked |-> tracked]
  ELSE LET wtitle == Head(wins)
           proj   == ProjectOf[wtitle]
           others == SelectSeq(active, LAMBDA e : e.proj # proj)
       IN  IF TrackedTitle[wtitle]
           THEN OpenLoopReset(Append(others, [proj |-> proj, start |-> now,
                                              window_title |-> wtitle]),
                              tracked \cup {proj}, Tail(wins), now)
           ELSE OpenLoopReset(active, tracked, Tail(wins), now)

\* OpenLoop that stores the title seen last: a title of an open project
\* replaces the stored one and keeps the start
RECURSIVE OpenLoopRetitle(_, _, _, _)
OpenLoopRetitle(active, tracked, wins, now) ==
  IF wins = <<>> THEN [active |-> active, tracked |-> tracked]
  ELSE LET wtitle == Head(wins)
           proj   == ProjectOf[wtitle]
       IN  IF TrackedTitle[wtitle]
           THEN OpenLoopRetitle(
                  IF proj \notin ActiveKeys(active)
                  THEN on_window_open(active, wtitle, now)
                  ELSE [i \in DOMAIN active |->
                          IF active[i].proj = proj
                          THEN [active[i] EXCEPT !.window_title = wtitle]
                          ELSE active[i]],
                  tracked \cup {proj}, Tail(wins), now)
           ELSE OpenLoopRetitle(active, tracked, Tail(wins), now)

\* the loop of run() over current_windows: tracked_now and the sessions opened
RECURSIVE OpenLoop(_, _, _, _)
OpenLoop(active, tracked, wins, now) ==
  IF wins = <<>> THEN [active |-> active, tracked |-> tracked]
  ELSE LET wtitle == Head(wins)
           proj   == ProjectOf[wtitle]
       IN  IF TrackedTitle[wtitle]
           THEN OpenLoop(IF proj \notin ActiveKeys(active)
                         THEN on_window_open(active, wtitle, now)
                         ELSE active,
                         tracked \cup {proj}, Tail(wins), now)
           ELSE OpenLoop(active, tracked, Tail(wins), now)

\* closed_projs that holds every open project, as a periodic save-and-close
\* of all sessions would
ClosedProjsAll(active, tracked) == ActiveKeys(active)

\* ClosedProjs with the operands of the set difference exchanged
ClosedProjsSwapped(active, tracked) == tracked \ ActiveKeys(active)

\* closed_projs = set(self.session_active) - tracked_now
ClosedProjs(active, tracked) == ActiveKeys(active) \ tracked

\* list(closed_projs): a set is listed in an order the program does not choose
Orders(S) ==
  {o \in [1..Cardinality(S) -> S] : \A i, j \in 1..Cardinality(S) : o[i] = o[j] => i = j}

\* FlushList that stops after the first key
FlushListFirst(active) == IF active = <<>> THEN <<>> ELSE <<active[1].proj>>

\* list(self.session_active): the keys in insertion order
FlushList(active) == [i \in 1..Len(active) |-> active[i].proj]

\* self.session_active.pop(proj)
PopActive(active, p) == SelectSeq(active, LAMBDA e : e.proj # p)

\* ClosedSession with start and end exchanged
ClosedSessionSwapped(entry, wtitle, now) ==
  [start        |-> Fmt(now),
   end          |-> Fmt(entry.start),
   duration     |-> DurationSec(entry.start, now),
   window_title |-> TitleText(wtitle)]

\* the dict on_window_close appends for the popped entry at clock reading now
ClosedSession(entry, wtitle, now) ==
  [start        |-> Fmt(entry.start),
   end          |-> Fmt(now),
   duration     |-> DurationSec(entry.start, now),
   window_title |-> TitleText(wtitle)]

\* all window lists an enumeration may return
RECURSIVE WindowLists(_)
WindowLists(n) ==
  IF n = 0 THEN {<<>>}
  ELSE WindowLists(n - 1) \cup
       {Append(w, t) : w \in {x \in WindowLists(n - 1) : Len(x) = n - 1}, t \in Titles}

\* ------------------------------------------------------------------ state
VARIABLES
  pc,               \* where the process is: "boot" (before __init__), "poll"
                    \* (before get_all_open_windows), "close" (between two
                    \* on_window_close calls), "popped", "appended", "writing"
                    \* (inside on_window_close), "sleep", "done", "dead"
  phase,            \* "run": the try block of run(); "flush": its except block
  err,              \* why the process is dead: the exception that ended it
  clock,            \* the wall clock, in ticks
  session_active,   \* self.session_active
  sessions,         \* self.sessions
  log_meta,         \* self.log_meta
  disk,             \* the files <proj>_log.csv of LOG_FOLDER
  current_windows,  \* run(): current_windows of the latest enumeration
  tracked_now,      \* run(): tracked_now of the latest cycle
  todo,             \* run(): the projects the running for loop still has to close
  cur,              \* on_window_close(): the popped entry (session and its proj)
  cycle,            \* the number of poll cycles started so far
  lag,              \* the ticks one pass of the loop takes besides the sleep
  limit,            \* the number of poll cycles this behaviour is followed for
  prevLog,          \* history: the log of cur.proj before open(fname, 'w')
  written,          \* history: the projects whose log on disk was written
                    \* completely by save_session_log
  obs,              \* history: per project, its latest run of consecutive cycles
                    \* in which a tracked title showed it
  intr,             \* history: the KeyboardInterrupt of this process, if any
  arg_title,        \* the window_title of the latest classifier call made alone
  ret_project,      \* what extract_project_name returned for it
  created_at,       \* history: per project, the created_at of the first
                    \* header written for it or loaded from its log
  project_data      \* what read_project_logs of the chart script returned

vars == <<pc, phase, err, clock, session_active, sessions, log_meta, disk,
          current_windows, tracked_now, todo, cur, cycle, lag, limit,
          prevLog, written, obs, intr, arg_title, ret_project,
          created_at, project_data>>

memory == <<session_active, sessions, log_meta>>
locals == <<current_windows, tracked_now, todo, cur>>
history == <<prevLog, written, obs, intr>>
classified == <<arg_title, ret_project>>

\* a project that project_data does not hold
NoData == [listed |-> FALSE, sessions |-> 0, total_seconds |-> 0]

\* project_data before the chart script has run
NotRead == [read |-> FALSE, data |-> [p \in Projects |-> NoData]]

NoObs  == [first |-> 0, last |-> 0, n0 |-> 0]
NoIntr == [at |-> "none", time |-> 0, pending |-> {}]

Running == pc \in {"poll", "close", "popped", "appended", "writing", "sleep"}

\* the first second of the clock; the hand-made logs below lie before it
BootSecond == 5

FreshDisk == [p \in Projects |-> NoFile]

\* logs written or edited by hand before the tracker starts: a session of
\* three seconds that ended before BootSecond, alone or after a row that has a
\* text for its duration, a text for its start, or two cells only
HandRow(title)        == <<Fmt(1 * TicksPerSec), Fmt(4 * TicksPerSec), IntText(3),
                           TitleText(title)>>
BadDurationRow(title) == [HandRow(title) EXCEPT ![3] = [k |-> "txt", v |-> <<0>>]]
BadStartRow(title)    == [HandRow(title) EXCEPT ![1] = [k |-> "txt", v |-> <<0>>]]
ShortRow(title)       == SubSeq(HandRow(title), 1, 2)

HandLog(rows) ==
  FileOf(HeaderLines(Fmt(1 * TicksPerSec), Fmt(4 * TicksPerSec), 3)
           \o [i \in 1..Len(rows) |-> DataLine(rows[i])])

HandLogs(title) ==
  { HandLog(<<HandRow(title)>>),
    HandLog(<<BadDurationRow(title), HandRow(title)>>),
    HandLog(<<BadStartRow(title), HandRow(title)>>),
    HandLog(<<ShortRow(title), HandRow(title)>>) }

HandMadeDisks ==
  {[p \in Projects |-> IF p = ProjA THEN l ELSE HandLog(<<HandRow(TitleB)>>)] :
     l \in HandLogs(TitleA)}

\* the state before the process starts, on the log folder d, followed for n
\* poll cycles
Start(d, n) ==
  /\ pc = "boot"
  /\ phase = "run"
  /\ err = ""
  /\ clock = BootSecond * TicksPerSec
  /\ session_active = <<>>
  /\ sessions = [p \in Projects |-> <<>>]
  /\ log_meta = [p \in Projects |-> NoMeta]
  /\ disk = d
  /\ current_windows = <<>>
  /\ tracked_now = {}
  /\ todo = <<>>
  /\ cur = NoEntry
  /\ cycle = 0
  /\ lag \in 0..MaxDrift
  /\ limit = n
  /\ prevLog = NoFile
  /\ written = {}
  /\ obs = [p \in Projects |-> NoObs]
  /\ intr = NoIntr
  /\ arg_title = <<>>
  /\ ret_project = <<>>
  /\ created_at = [p \in Projects |-> Missing]
  /\ project_data = NotRead

\* the first start of the tracker, on an empty log folder
Init == Start(FreshDisk, MaxCycles)

\* ---------------------------------------------------------------- actions
\* the process ends (an uncaught exception, or it is killed): its memory is
\* gone, the files stay as they are
Exit(why) ==
  /\ pc' = "dead"
  /\ err' = why
  /\ phase' = "run"
  /\ session_active' = <<>>
  /\ sessions' = [p \in Projects |-> <<>>]
  /\ log_meta' = [p \in Projects |-> NoMeta]
  /\ current_windows' = <<>>
  /\ tracked_now' = {}
  /\ todo' = <<>>
  /\ cur' = NoEntry
  /\ prevLog' = NoFile
  /\ obs' = [p \in Projects |-> NoObs]
  /\ intr' = NoIntr
  /\ UNCHANGED <<clock, disk, cycle, lag, limit, classified, created_at,
                 project_data, written>>

\* WindowTimeTracker.__init__: load_existing_sessions; a ValueError of int()
\* is not caught and ends the process before run() starts
Load ==
  /\ pc = "boot"
  /\ LET r == load_existing_sessions(disk, clock)
     IN  IF r.raises
         THEN Exit("ValueError")
         ELSE /\ pc' = "poll"
              /\ sessions' = r.sessions
              /\ log_meta' = r.log_meta
              /\ created_at' = [p \in Projects |->
                                  IF created_at[p] = Missing /\ disk[p].exists
                                  THEN ScanMeta(disk[p].lines, 1, NoMeta).created
                                  ELSE created_at[p]]
              /\ UNCHANGED <<phase, err, clock, session_active, disk, locals,
                             cycle, lag, limit, classified, history,
                             project_data>>

\* the run of consecutive observations of p after a cycle that saw it
ObserveRun(o, c, now, n) ==
  IF o.last > 0 /\ o.last = c - 1
  THEN [o EXCEPT !.last = c]
  ELSE [first |-> now, last |-> c, n0 |-> n]

\* one pass of the while loop up to the close loop: enumerate the windows,
\* open the sessions of the tracked titles, compute closed_projs
Poll(wins) ==
  /\ pc = "poll"
  /\ cycle < limit
  /\ LET r == OpenLoop(session_active, {}, wins, clock)
     IN  /\ session_active' = r.active
         /\ tracked_now' = r.tracked
         /\ todo' \in Orders(ClosedProjs(r.active, r.tracked))
         /\ obs' = [p \in Projects |->
                      IF p \in r.tracked
                      THEN ObserveRun(obs[p], cycle + 1, clock, Len(sessions[p]))
                      ELSE IF obs[p].last = cycle THEN obs[p] ELSE NoObs]
  /\ current_windows' = wins
  /\ cycle' = cycle + 1
  /\ pc' = "close"
  /\ UNCHANGED <<phase, err, clock, sessions, log_meta, disk, cur, lag,
                 limit, classified, created_at, project_data, prevLog, written, intr>>

\* win32gui.EnumWindows raises (pywintypes.error): run() catches only
\* KeyboardInterrupt, so the exception ends the process
EnumFail ==
  /\ pc = "poll"
  /\ cycle < limit
  /\ Exit("EnumError")

\* on_window_close up to the pop: wtitle is the title stored for the project,
\* proj is classified from it again
Pop ==
  /\ pc = "close"
  /\ todo # <<>>
  /\ LET wtitle == ActiveOf(session_active, Head(todo)).window_title
         proj   == ProjectOf[wtitle]
     IN  IF proj \in ActiveKeys(session_active)
         THEN /\ cur' = ActiveOf(session_active, proj)
              /\ session_active' = PopActive(session_active, proj)
              /\ pc' = "popped"
         ELSE /\ UNCHANGED <<cur, session_active>>
              /\ pc' = "close"
  /\ todo' = Tail(todo)
  /\ UNCHANGED <<phase, err, clock, sessions, log_meta, disk, current_windows,
                 tracked_now, cycle, lag, limit, classified, created_at, project_data,
                 history>>

\* on_window_close: end_time = datetime.now() and self.sessions[proj].append
AppendSession ==
  /\ pc = "popped"
  /\ sessions' = [sessions EXCEPT ![cur.proj] =
                    Append(@, ClosedSession(cur, cur.window_title, clock))]
  /\ pc' = "appended"
  /\ UNCHANGED <<phase, err, clock, session_active, log_meta, disk, locals,
                 cycle, lag, limit, classified, created_at, project_data, history>>

\* save_session_log up to open(fname, 'w'), which truncates the file
OpenLog ==
  /\ pc = "appended"
  /\ sessions[cur.proj] # <<>>
  /\ log_meta' = [log_meta EXCEPT ![cur.proj] =
                    SaveMeta(@, sessions[cur.proj], clock)]
  /\ prevLog' = disk[cur.proj]
  /\ disk' = [disk EXCEPT ![cur.proj] = FileOf(<<>>)]
  /\ written' = written \ {cur.proj}
  /\ pc' = "writing"
  /\ UNCHANGED <<phase, err, clock, session_active, sessions, locals, cycle,
                 lag, limit, classified, created_at, project_data, obs, intr>>

\* open(fname, 'w') raises OSError (the log is locked or not writable): no
\* handler catches it
OpenFail ==
  /\ pc = "appended"
  /\ Exit("OSError")

\* where the for loop of run() goes on after a close
AfterClose == "close"

\* the writes of save_session_log: first the header lines and the column
\* row, then one session row at a time; the last row ends on_window_close
WriteLines ==
  /\ pc = "writing"
  /\ LET full == RenderLog(log_meta[cur.proj], sessions[cur.proj])
         have == Len(disk[cur.proj].lines)
         n    == IF have = 0 THEN HeaderLen ELSE have + 1
     IN  /\ disk' = [disk EXCEPT ![cur.proj] = FileOf(SubSeq(full, 1, n))]
         /\ IF n = Len(full)
            THEN /\ pc' = AfterClose
                 /\ cur' = NoEntry
                 /\ prevLog' = NoFile
                 /\ written' = written \cup {cur.proj}
            ELSE UNCHANGED <<pc, cur, prevLog, written>>
         /\ created_at' = [created_at EXCEPT ![cur.proj] =
                             IF @ = Missing THEN HeaderValue(full[1]) ELSE @]
  /\ UNCHANGED <<phase, err, clock, memory, current_windows, tracked_now, todo,
                 cycle, lag, limit, classified, obs, intr, project_data>>

\* a write raises OSError (the disk is full): the lines written so far stay
WriteFail ==
  /\ pc = "writing"
  /\ Exit("OSError")

\* the for loop is exhausted: time.sleep in the try block, the end of run()
\* in the except block
EndLoop ==
  /\ pc = "close"
  /\ todo = <<>>
  /\ pc' = IF phase = "run" THEN "sleep" ELSE "done"
  /\ current_windows' = <<>>
  /\ UNCHANGED <<phase, err, clock, memory, disk, tracked_now, todo, cur,
                 cycle, lag, limit, classified, created_at, project_data, history>>

\* time.sleep(CHECK_INTERVAL) returns
Sleep ==
  /\ pc = "sleep"
  /\ cycle < limit
  /\ clock' = clock + CheckTicks + lag
  /\ pc' = "poll"
  /\ UNCHANGED <<phase, err, memory, disk, locals, cycle, lag, limit,
               classified, created_at, project_data, history>>

\* the sessions in progress at a point of the loop: the active ones and the
\* one on_window_close is closing; n is the number of closed sessions of the
\* project before this one
InProgress ==
  {[proj |-> session_active[i].proj, start |-> session_active[i].start,
    n |-> Len(sessions[session_active[i].proj])] : i \in DOMAIN session_active}
  \cup (IF pc = "popped"
        THEN {[proj |-> cur.proj, start |-> cur.start, n |-> Len(sessions[cur.proj])]}
        ELSE IF pc \in {"appended", "writing"}
        THEN {[proj |-> cur.proj, start |-> cur.start,
               n |-> Len(sessions[cur.proj]) - 1]}
        ELSE {})

\* KeyboardInterrupt anywhere in the try block of run(): control goes to the
\* except block, which lists the active sessions; a file being written is
\* closed with the lines written so far. An interrupt of the sleep is taken
\* at its start (pc = "sleep") or at its end (pc = "poll").
Interrupt ==
  /\ phase = "run"
  /\ Running
  /\ intr' = [at |-> pc, time |-> clock, pending |-> InProgress]
  /\ phase' = "flush"
  /\ todo' = FlushList(session_active)
  /\ cur' = NoEntry
  /\ prevLog' = NoFile
  /\ current_windows' = <<>>
  /\ pc' = "close"
  /\ UNCHANGED <<err, clock, memory, disk, tracked_now, cycle, lag, limit,
               classified, created_at, project_data,
                 written, obs>>

\* the process is killed, or the machine stops
Crash ==
  /\ Running
  /\ Exit("killed")

\* the tracker is started again with empty memory: by the second __main__
\* block of the file once run() has returned, or as a new process
Restart ==
  /\ pc \in {"done", "dead"}
  /\ pc' = "boot"
  /\ phase' = "run"
  /\ err' = ""
  /\ session_active' = <<>>
  /\ sessions' = [p \in Projects |-> <<>>]
  /\ log_meta' = [p \in Projects |-> NoMeta]
  /\ current_windows' = <<>>
  /\ tracked_now' = {}
  /\ todo' = <<>>
  /\ cur' = NoEntry
  /\ prevLog' = NoFile
  /\ obs' = [p \in Projects |-> NoObs]
  /\ intr' = NoIntr
  /\ UNCHANGED <<clock, disk, cycle, lag, limit, classified, created_at,
                 project_data, written>>

\* one life of the process
Run ==
  \/ Load
  \/ \E wins \in WindowLists(MaxWindows) : Poll(wins)
  \/ EnumFail
  \/ Pop
  \/ AppendSession
  \/ OpenLog
  \/ OpenFail
  \/ WriteLines
  \/ WriteFail
  \/ EndLoop
  \/ Sleep
  \/ Interrupt
  \/ Crash

Spec == Init /\ [][Run]_vars

\* the process and its restarts
Next == Run \/ Restart

InitRestart == Start(FreshDisk, FewCycles)

SpecRestart == InitRestart /\ [][Next]_vars

\* one life of the process on a log folder that holds logs edited by hand
InitLoad == \E d \in HandMadeDisks : Start(d, FewCycles)

SpecLoad == InitLoad /\ [][Run]_vars

\* ------------------------------------------- the classifier called alone
\* all texts of the characters cs that are n characters long or shorter
RECURSIVE Texts(_, _)
Texts(cs, n) ==
  IF n = 0 THEN {<<>>}
  ELSE Texts(cs, n - 1) \cup
       {Append(w, c) : w \in {x \in Texts(cs, n - 1) : Len(x) = n - 1}, c \in cs}

\* a letter of each case, the blanks, the dashes, the marker of a modified
\* document and two of the characters a file name cannot hold
TitleChars == {"a", "B", " ", "TAB", "-", "EN", "*", ":", "?"}

\* the characters of the project texts of the composed titles
NameChars == {"a", " ", "TAB", "*", ":"}

ShortTitles == Texts(TitleChars, MaxTitleLen)

\* a title that starts with the separator
DashApp == <<"-", " ", "A", "p", "p">>

\* the project texts of the composed titles: two characters or more, no
\* dash, no "*" and no space in front
NameTexts ==
  {n \in Texts(NameChars, MaxNameLen) :
     Len(n) >= MIN_NAME_LEN /\ n[1] \notin {"*", " "}}

\* what follows the first separator: an application, an application and its
\* version, a text with one more separator
Suffixes ==
  { <<"B","l","e","n","d","e","r">>,
    <<"B","l","e","n","d","e","r"," ","4",".","5">>,
    <<"a"," ","-"," ","R","e","v","i","t">> }

\* "P - <app>" and "* P - <app>"
Plain(P, app)  == P \o SplitSep \o app
Marked(P, app) == <<"*", " ">> \o P \o SplitSep \o app

ComposedTitles ==
  {Plain(n, a) : n \in NameTexts, a \in Suffixes}
    \cup {Marked(n, a) : n \in NameTexts, a \in Suffixes}

\* get_all_open_windows returns no empty title
TitleInputs == (ShortTitles \cup {DashApp} \cup ComposedTitles) \ {<<>>}

Called == arg_title # <<>>

\* one call of extract_project_name
Classify(title) ==
  /\ pc = "boot"
  /\ ~Called
  /\ arg_title' = title
  /\ ret_project' = extract_project_name(title)
  /\ UNCHANGED <<pc, phase, err, clock, memory, disk, locals, cycle, lag, limit,
                 history, created_at, project_data>>

NextClassify == \E title \in TitleInputs : Classify(title)

InitClassify == Init /\ lag = 0

SpecClassify == InitClassify /\ [][NextClassify]_vars

\* ---------------------------------------- the reader of the chart script
\* the lines csv.DictReader is given: those that do not start with '#'; the
\* first of them holds the field names
ReaderLines(lines) == SelectSeq(lines, LAMBDA ln : ~ln.hash)

\* row[name] for the column name ColumnName(k): the cell under the field of
\* that name; None ("none") when the row is too short; KeyError ("none" as
\* well: both raise inside the try) when no field has the name
Field(names, row, k) ==
  IF \E i \in 1..Len(names.cells) :
       names.cells[i] = ColumnName(k) /\ i <= Len(row.cells)
  THEN ReadCell(row.cells[CHOOSE i \in 1..Len(names.cells) :
                            names.cells[i] = ColumnName(k)])
  ELSE Missing

\* the try block of read_project_logs does not raise on this row: strptime
\* accepts the start and the end, int() accepts the duration
RowParses(names, row) ==
  /\ IsTsText(Field(names, row, 1))
  /\ IsTsText(Field(names, row, 2))
  /\ IsIntText(Field(names, row, 3))

RECURSIVE SumParsed(_, _)
SumParsed(names, rows) ==
  IF rows = <<>> THEN 0
  ELSE IntOf(Field(names, Head(rows), 3)) + SumParsed(names, Tail(rows))

\* read_project_logs for one log file
ReadOneLog(f) ==
  LET lines == ReaderLines(f.lines)
      names == Head(lines)
      rows  == IF lines = <<>> THEN <<>>
               ELSE SelectSeq(Tail(lines), LAMBDA r : RowParses(names, r))
  IN  IF rows = <<>> THEN NoData
      ELSE [listed |-> TRUE, sessions |-> Len(rows),
            total_seconds |-> SumParsed(names, rows)]

\* read_project_logs over the log folder d
read_project_logs(d) ==
  [p \in DOMAIN d |-> IF d[p].exists THEN ReadOneLog(d[p]) ELSE NoData]

\* the chart script is run once, after the tracker has stopped
ReadLogs ==
  /\ pc \in {"done", "dead"}
  /\ ~project_data.read
  /\ project_data' = [read |-> TRUE, data |-> read_project_logs(disk)]
  /\ UNCHANGED <<pc, phase, err, clock, memory, disk, locals, cycle, lag, limit,
                 history, classified, created_at>>

\* a row cut after its duration
NoTitleRow(title) == SubSeq(HandRow(title), 1, 3)

\* the log folders the chart script is tried on: the logs edited by hand,
\* one whose only row has a malformed start, one with a row cut after its
\* duration, and the folder of a first run
FoldersRead ==
  HandMadeDisks \cup {FreshDisk}
    \cup {[p \in Projects |-> IF p = ProjA THEN l ELSE HandLog(<<HandRow(TitleB)>>)] :
            l \in { HandLog(<<BadStartRow(TitleA)>>),
                    HandLog(<<NoTitleRow(TitleA), HandRow(TitleA)>>) }}

InitRead == \E d \in FoldersRead : Start(d, MaxCycles)

\* one life of the tracker on one of these folders, then the chart script
NextRead == Run \/ ReadLogs

SpecRead == InitRead /\ [][NextRead]_vars

\* ------------------------------------------------------------ properties
\* the session rows of the log of p on disk, and the rows that the in-memory
\* history of p makes
PersistedRows(p) == IF disk[p].exists THEN CsvRows(disk[p].lines) ELSE <<>>
MemoryRows(p) == [i \in 1..Len(sessions[p]) |-> DataLine(RowCells(sessions[p][i]))]

Last(seq) == seq[Len(seq)]

\* a poll cycle of the try block has run to its end
CycleDone == pc = "sleep" /\ phase = "run"

\* p was observed in the cycles up to the previous one and not in this one
AbsentNow(p) == obs[p].last > 0 /\ obs[p].last = cycle - 1

\* C1 (no lost close). At the end of every poll cycle: a project observed in
\* this cycle has an ActiveSession and no Session was emitted for it since
\* its first observation; a project observed in the cycles 1..k before this
\* one and absent in this one has exactly one more Session than at its first
\* observation, with start = the time of the first observation, end = the
\* time of this cycle and duration = the whole seconds between them (equal to
\* end - start of the recorded texts when the cycles take whole seconds), the
\* Session is the last row of the project's log on disk, and the project has
\* no ActiveSession.
C1_NoLostClose ==
  CycleDone =>
    \A p \in Projects :
      /\ obs[p].last = cycle =>
           /\ p \in ActiveKeys(session_active)
           /\ Len(sessions[p]) = obs[p].n0
      /\ AbsentNow(p) =>
           /\ Len(sessions[p]) = obs[p].n0 + 1
           /\ Last(sessions[p]).start = Fmt(obs[p].first)
           /\ Last(sessions[p]).end = Fmt(clock)
           /\ Last(sessions[p]).duration = (clock - obs[p].first) \div TicksPerSec
           /\ lag = 0 =>
                Last(sessions[p]).duration =
                  TsSeconds(Last(sessions[p]).end) - TsSeconds(Last(sessions[p]).start)
           /\ PersistedRows(p) = MemoryRows(p)
           /\ p \notin ActiveKeys(session_active)

\* a project seen in two cycles or more and absent in the one that just ended
C1_Witness ==
  /\ CycleDone
  /\ \E p \in Projects :
       /\ AbsentNow(p)
       /\ clock - obs[p].first >= 2 * CheckTicks
       /\ Len(sessions[p]) = 1
       /\ Len(PersistedRows(p)) = 1

\* C2 (interrupt safety). When the except block of run() has finished, every
\* session that was in progress when the KeyboardInterrupt arrived (active,
\* or popped by an on_window_close that had not yet saved it) has a row with
\* its start in the log of its project.
C2_InterruptSafety ==
  pc = "done" =>
    \A x \in intr.pending :
      \E i \in 1..Len(PersistedRows(x.proj)) :
        PersistedRows(x.proj)[i].cells[1] = Fmt(x.start)

\* the interrupt arrived between two poll cycles: in the sleep, or before the
\* enumeration of the next cycle started
BetweenCycles == intr.at \in {"sleep", "poll"}

\* C3 (graceful shutdown flush). When a shutdown that began between two poll
\* cycles has finished, every ActiveSession of that moment has become exactly
\* one Session, the last of its project, with its start and with end = the
\* shutdown time; the log of the project holds all its sessions, and no
\* ActiveSession is left.
C3_ShutdownFlush ==
  (pc = "done" /\ BetweenCycles) =>
    /\ session_active = <<>>
    /\ \A x \in intr.pending :
         /\ Len(sessions[x.proj]) = x.n + 1
         /\ Last(sessions[x.proj]).start = Fmt(x.start)
         /\ Last(sessions[x.proj]).end = Fmt(intr.time)
         /\ Last(sessions[x.proj]).duration = (intr.time - x.start) \div TicksPerSec
         /\ PersistedRows(x.proj) = MemoryRows(x.proj)

\* a finished shutdown that found both projects active, one of them with an
\* earlier session
C3_Witness ==
  /\ pc = "done"
  /\ intr.at = "sleep"
  /\ Cardinality(intr.pending) = 2
  /\ \E x \in intr.pending : x.n = 1 /\ Len(PersistedRows(x.proj)) = 2

\* a row as the claim counts it valid: four cells, well-formed start and end,
\* an integer duration
ValidRow(ln) ==
  /\ Len(ln.cells) = 4
  /\ IsTsText(ln.cells[1])
  /\ IsTsText(ln.cells[2])
  /\ IsIntText(ln.cells[3])

ValidSessions(f) ==
  LET rows == SelectSeq(CsvRows(f.lines), ValidRow)
  IN  [i \in 1..Len(rows) |-> RowSession(rows[i])]

\* C4 (corrupt-row tolerance on load). The step that loads the log folder
\* starts the poll loop with, for every project, the sessions of the valid
\* rows of its log: a corrupt row is skipped alone and startup is not aborted.
C4_CorruptRowTolerance ==
  [][pc = "boot" =>
       /\ pc' = "poll"
       /\ \A p \in Projects : sessions'[p] = ValidSessions(disk[p])]_vars

\* what save_session_log would write at clock reading now from what
\* load_existing_sessions makes of the log f
Resaved(f, now) ==
  LET sess == LoadRows(f.lines)
      meta == SaveMeta(LoadMeta(f.lines, now), sess, now)
  IN  RenderLog(meta, sess)

\* C5 (idempotent reload). For every log that save_session_log wrote: loading
\* it does not raise, and saving what was loaded writes the same lines (the
\* same Created line, the same total, the same session rows in the same
\* order) except the Last changed line.
C5_IdempotentReload ==
  \A p \in written :
    /\ ~LoadRaises(disk[p].lines)
    /\ Len(Resaved(disk[p], clock)) = Len(disk[p].lines)
    /\ \A i \in 1..Len(disk[p].lines) :
         i # 2 => Resaved(disk[p], clock)[i] = disk[p].lines[i]

\* C6 (atomic persist). While save_session_log rewrites a log that existed,
\* the file holds the complete previous version or the complete new one.
C6_AtomicPersist ==
  (pc = "writing" /\ prevLog.exists) =>
    \/ disk[cur.proj] = prevLog
    \/ disk[cur.proj] = FileOf(RenderLog(log_meta[cur.proj], sessions[cur.proj]))

\* C7 (no overlapping sessions). For every project the sessions are ordered and
\* do not overlap (start <= end <= the next start), at most one ActiveSession
\* exists, and it starts at least one poll interval after the end of the
\* project's last session: a project closed in a cycle is reopened in a later
\* cycle only.
C7_NoOverlap ==
  \A p \in Projects :
    /\ \A i \in 1..Len(sessions[p]) :
         /\ TsSeconds(sessions[p][i].start) <= TsSeconds(sessions[p][i].end)
         /\ i < Len(sessions[p]) =>
              TsSeconds(sessions[p][i].end) <= TsSeconds(sessions[p][i + 1].start)
    /\ Cardinality({i \in DOMAIN session_active : session_active[i].proj = p}) <= 1
    /\ (p \in ActiveKeys(session_active) /\ sessions[p] # <<>>) =>
         TsSeconds(Fmt(ActiveOf(session_active, p).start))
           >= TsSeconds(Last(sessions[p]).end) + CHECK_INTERVAL

\* a project with two closed sessions, and a project reopened after a close
C7_Witness ==
  /\ \E p \in Projects : Len(sessions[p]) = 2
  /\ \E p \in Projects : p \in ActiveKeys(session_active) /\ sessions[p] # <<>>

\* C8 (start is never reset). The start of every ActiveSession is the time of
\* the first cycle of the project's current run of consecutive observations:
\* observing the project again, by any title, leaves it unchanged, and a new
\* start is taken only when the project reappears after an absence.
C8_StartKept ==
  \A i \in DOMAIN session_active :
    /\ session_active[i].start = obs[session_active[i].proj].first
    /\ obs[session_active[i].proj].last \in {cycle - 1, cycle}

\* an open project observed again in a later cycle through a duplicate title
\* and through another title of the same project
C8_Witness ==
  /\ pc = "close"
  /\ phase = "run"
  /\ current_windows \in {<<TitleA2, TitleA2>>, <<TitleA2, TitleA>>}
  /\ ProjA \in ActiveKeys(session_active)
  /\ ActiveOf(session_active, ProjA).window_title = TitleA
  /\ ActiveOf(session_active, ProjA).start < clock

\* C9 (enumeration failure is absorbed). A step in which the enumeration fails
\* is the step of a cycle that observed nothing: the process goes on to close
\* every ActiveSession.
C9_EnumFailureAbsorbed ==
  [][(pc = "poll" /\ err' = "EnumError") =>
       /\ pc' = "close"
       /\ tracked_now' = {}
       /\ session_active' = session_active
       /\ todo' \in Orders(ActiveKeys(session_active))]_vars

\* C10 (write failure loses nothing). A step in which a write of
\* save_session_log fails leaves the process running, with the closed Session
\* in the history of its project and the other closes still to be done.
C10_WriteFailureLosesNothing ==
  [][(pc \in {"appended", "writing"} /\ err' = "OSError") =>
       /\ pc' # "dead"
       /\ sessions' = sessions
       /\ session_active' = session_active
       /\ todo' = todo]_vars

\* the project text the classifier derives from the title, before the
\* test of its length
DerivedText(title) ==
  LET n   == MatchLen(title)
      raw == IF n > 0 THEN Strip(SubSeq(title, 1, n))
             ELSE Prefix(title, TITLE_PREFIX_LEN)
  IN  Sanitize(LStrip(raw, {"*", " "}))

\* C11 (short-name fallback). The classifier returns "Unnamed_Project" when
\* the project text it derives has fewer than 2 characters, and it returns
\* "Unnamed_Project" for "- App", a title that starts with the separator.
C11_ShortNameFallback ==
  Called =>
    /\ Len(DerivedText(arg_title)) < MIN_NAME_LEN => ret_project = UnnamedProject
    /\ arg_title = DashApp => ret_project = UnnamedProject

HasEdgeBlank(P) == IsSpace(P[1]) \/ IsSpace(P[Len(P)])
HasIllegal(P) == \E i \in 1..Len(P) : P[i] \in IllegalChars

C13_Sanitized ==
  /\ Called
       => \A i \in 1..Len(ret_project) : ret_project[i] \notin IllegalChars
  /\ \A k \in ActiveKeys(session_active) :
       \A i \in 1..Len(k) : k[i] \notin IllegalChars
  /\ \A p \in Projects : \A i \in 1..Len(p) : p[i] \notin IllegalChars

\* a title whose project text holds such characters, classified
C13_Witness ==
  /\ \E i \in 1..Len(arg_title) : arg_title[i] \in IllegalChars
  /\ Len(ret_project) = MaxTitleLen
  /\ \E i \in 1..Len(ret_project) : ret_project[i] = "_"

\* C14 (created_at is immutable). Once the created_at of a project is set,
\* by the first persist that writes its header or by the load of its log,
\* the created_at that save_session_log writes and keeps for the next persist
\* is that one: in every log that has its header and in log_meta.
C14_CreatedImmutable ==
  \A p \in Projects :
    created_at[p] # Missing =>
      /\ log_meta[p].created \in {Missing, created_at[p]}
      /\ (disk[p].exists /\ disk[p].lines # <<>>) =>
            HeaderValue(disk[p].lines[1]) = created_at[p]

\* the session rows of a log file
RowsOf(f) == IF f.exists THEN CsvRows(f.lines) ELSE <<>>

\* C15 (append-only history across restarts). The step that completes a
\* persist of a project leaves a log whose session rows are the rows the log
\* held before this persist, in the same order, followed by the row of the
\* session that was just closed.
C15_AppendOnly ==
  [][(pc = "writing" /\ cur.proj \in written') =>
       LET old == RowsOf(prevLog)
           new == RowsOf(disk'[cur.proj])
       IN  /\ Len(new) = Len(old) + 1
           /\ SubSeq(new, 1, Len(old)) = old
           /\ Last(new) = DataLine(RowCells(Last(sessions[cur.proj])))]_vars

\* the for loop over closed_projs of a poll cycle is exhausted
ClosesDone == pc = "close" /\ phase = "run" /\ todo = <<>>

\* the projects of the titles of a window list whose application is one of
\* the tracked ones
TrackedProjects(wins) ==
  {ProjectOf[wins[i]] : i \in {j \in DOMAIN wins : TrackedTitle[wins[j]]}}

\* C16 (active set = tracked projects of the cycle). When a poll cycle has
\* done its opens and closes, the projects that have an ActiveSession are
\* exactly the projects of the cycle's titles of tracked applications: each
\* of them is open, every other project is closed, and a title of another
\* application opens nothing and keeps nothing open.
C16_ActiveIsTracked ==
  ClosesDone => ActiveKeys(session_active) = TrackedProjects(current_windows)

\* a cycle that shows project A1 through a browser title only, after a cycle
\* that opened it: its session is closed, and the other project is open
C16_Witness ==
  /\ ClosesDone
  /\ current_windows = <<TitleC, TitleB>>
  /\ Len(sessions[ProjA]) = 1
  /\ ActiveKeys(session_active) = {ProjB}

\* the sum of the third cells of session rows
RECURSIVE RowsTotal(_)
RowsTotal(rows) ==
  IF rows = <<>> THEN 0 ELSE IntOf(Head(rows).cells[3]) + RowsTotal(Tail(rows))

\* the value of the "# Total time across all sessions (sec)" line of a log
HeaderTotal(f) == IntOf(HeaderValue(f.lines[3]))

\* C17 (persisted total is the sum of the rows). In every log that
\* save_session_log has written, the total of the header is the sum of the
\* durations of the session rows of the same file, the rows reloaded from an
\* earlier run included.
C17_TotalIsSum ==
  \A p \in written : HeaderTotal(disk[p]) = RowsTotal(RowsOf(disk[p]))

\* a written log that holds a row loaded at the start and a row of a session
\* of this run that lasted a cycle or more
C17_Witness ==
  \E p \in written :
    /\ Len(RowsOf(disk[p])) = 2
    /\ RowsOf(disk[p])[1] = DataLine(HandRow(TitleA))
    /\ IntOf(RowsOf(disk[p])[2].cells[3]) >= CHECK_INTERVAL
    /\ HeaderTotal(disk[p]) >= CHECK_INTERVAL + 3

\* C18 (session duration). Every Session the tracker has produced has a
\* duration of whole seconds that is not negative and equals its recorded end
\* minus its recorded start, both recorded at whole-second resolution, for
\* any clock readings at open and close.
C18_DurationIsDifference ==
  \A p \in Projects :
    \A i \in 1..Len(sessions[p]) :
      /\ sessions[p][i].duration >= 0
      /\ sessions[p][i].duration =
           TsSeconds(sessions[p][i].end) - TsSeconds(sessions[p][i].start)

C20_MirrorConsistency ==
  (CycleDone \/ pc = "done") =>
    \A p \in Projects :
      sessions[p] # <<>> => RowsOf(disk[p]) = MemoryRows(p)

\* the first title of a window list that belongs to a tracked application
\* and is classified as project p
FirstTrackedTitle(wins, p) ==
  wins[CHOOSE i \in DOMAIN wins :
         /\ TrackedTitle[wins[i]] /\ ProjectOf[wins[i]] = p
         /\ \A j \in 1..(i - 1) : ~(TrackedTitle[wins[j]] /\ ProjectOf[wins[j]] = p)]

\* C21 (first-open title wins). In every step: a session that the step
\* opens stores the first title of the enumeration that is tracked and
\* belongs to its project; a session that stays open keeps its title and its
\* start, whatever titles the cycle shows; on_window_close takes the stored
\* entry, and the Session row it appends carries the stored title.
C21_FirstTitleWins ==
  [][\A p \in Projects :
       /\ (p \in ActiveKeys(session_active') /\ p \notin ActiveKeys(session_active))
            => ActiveOf(session_active', p).window_title
                 = FirstTrackedTitle(current_windows', p)
       /\ (p \in ActiveKeys(session_active') /\ p \in ActiveKeys(session_active))
            => ActiveOf(session_active', p) = ActiveOf(session_active, p)
       /\ (pc' = "popped" /\ cur'.proj = p)
            => cur' = ActiveOf(session_active, p)
       /\ (pc = "popped" /\ pc' = "appended" /\ cur.proj = p)
            => /\ Len(sessions'[p]) = Len(sessions[p]) + 1
               /\ Last(sessions'[p]).window_title = TitleText(cur.window_title)]_vars

\* a cycle that shows an open project under another title only: the session
\* opened as "A1 - Blender" goes on with that title
C21_Witness ==
  /\ ClosesDone
  /\ current_windows = <<TitleA2>>
  /\ ProjA \in ActiveKeys(session_active)
  /\ ActiveOf(session_active, ProjA).window_title = TitleA
  /\ ActiveOf(session_active, ProjA).start < clock

\* C22 (reader/writer agreement on totals). When read_project_logs has
\* read the log folder: for every log that save_session_log wrote, it returns
\* a session count equal to the number of rows written and a total_seconds
\* equal to the total of the header; for every log, it counts the valid rows
\* and totals their durations, and it lists the project only when it has a
\* valid row.
C22_ReaderAgrees ==
  project_data.read =>
    /\ \A p \in written :
         /\ project_data.data[p].listed
         /\ project_data.data[p].sessions = Len(RowsOf(disk[p]))
         /\ project_data.data[p].total_seconds = HeaderTotal(disk[p])
    /\ \A p \in Projects :
         LET valid == SelectSeq(RowsOf(disk[p]), ValidRow)
         IN  /\ project_data.data[p].listed = (valid # <<>>)
             /\ project_data.data[p].sessions = Len(valid)
             /\ project_data.data[p].total_seconds = RowsTotal(valid)

====
